---- MODULE Spec2Model ----
(***************************************************************************)
(* The script sandbox of the ESP32-S3 simulator: the Pyodide web worker    *)
(* (pyodide.worker.js) and the part of the coding overlay that talks to    *)
(* it (CodingOverlay.jsx).                                                 *)
(*                                                                         *)
(* The worker is one JavaScript thread.  Every action below is one task of *)
(* its event loop, run from the point where the code is entered to the     *)
(* next await: the dispatch of a message to self.onmessage, the settling   *)
(* of loadPyodide, the evaluation of a source text handed to               *)
(* runPythonAsync, one step of a guest asyncio task between two            *)
(* suspension points, the expiry of the 100 ms grace timer.  Time is       *)
(* counted in ticks of one injected sleep (20 ms).                         *)
(*                                                                         *)
(* Five parts of the program are followed on their own, each under its     *)
(* own specification, the variables of the other parts standing still:     *)
(* the hardware shim (Pin objects and INPUT_STATES, PinSpec), the pin      *)
(* state store of CodingContext.jsx (StoreSpec), the source rewriting      *)
(* injectLoopSafety (InjectSpec), the way of a PIN_UPDATE from the shim to *)
(* the store (BridgeSpec) and the wiring functions of CodingContext.jsx    *)
(* (WireSpec).                                                             *)
(***************************************************************************)
EXTENDS Integers, Sequences, FiniteSets, TLC

\* ---- bounds of the model ----
MaxRuns == 2       \* RUN_CODE messages the application sends
MaxStops == 1      \* STOP messages the application sends
MaxOut == 12       \* time is followed until the worker has posted this many messages

\* ---- constants of the program ----
GraceMs == 100     \* setTimeout(resolve, 100) after runPythonAsync
SleepMs == 20      \* await asyncio.sleep(0.02) injected into loops
GraceTicks == GraceMs \div SleepMs
SleepTicks == SleepMs \div SleepMs

MaxPins == 2       \* Pin objects the guest code constructs
MaxCalls == 2      \* calls of value / on / off the guest code makes

NumPins == 40      \* new Array(40)
PinIN == 0         \* Pin.IN
PinOUT == 1        \* Pin.OUT
Undefined == 0 - 1 \* JavaScript's undefined: an argument or a field that is not there
IndentStep == 4    \* let nextIndent = currentIndent + 4

MaxLines == 3      \* lines of a source text handed to injectLoopSafety
MaxSubs == 3       \* callbacks ever handed to subscribeToPinStates
MaxWrites == 2     \* calls of setPinStates
MaxEmits == 3      \* PIN_UPDATEs followed from the shim to the store
MaxWires == 2      \* wires ever completed

MaxMsgs == 1 + MaxRuns + MaxStops
MsgIds == 1 .. MaxMsgs

VARIABLES
    inbox,      \* messages posted to the worker and not yet dispatched
    h,          \* h[i]: the invocation of self.onmessage for message i
    pyodide,    \* the worker's global: 0 is null, i the interpreter loaded by invocation i
    sysStdout,  \* sysStdout[p]: the capture object sys.stdout is bound to in interpreter p (0: sys.__stdout__)
    capture,    \* capture[r]: the runs whose print() text is in the OutputCapture made by run r
    task,       \* task[r]: the asyncio task of __main__() scheduled by run r
    ready,      \* callbacks of the interpreter's event loop that are due, in order
    sleepers,   \* the tasks waiting in a sleep, in the order their timers were set
    graces,     \* the RUN_CODE invocations in their grace period, in the order their timers were set
    blocked,    \* TRUE once a guest step that never suspends has the worker thread
    out,        \* every message the worker posted, in order
    loading,    \* the overlay's loading flag
    nextId      \* the id of the next message the application posts

VARIABLES
    INPUT_STATES,  \* the worker's input register, one cell per pin index
    pins,          \* the Pin objects the guest code has constructed, in order
    written,       \* written[k]: the last value a write call stored in pins[k], Undefined before any
    lastInput,     \* lastInput[p]: the value of the last INPUT_UPDATE handled for pin p, Undefined before any
    ret,           \* the last shim call and what it returned
    ncalls,        \* the shim calls made so far
    guest          \* "idle", or "running": a RUN_CODE started guest code and no STOP cancelled it

VARIABLES
    pinStatesRef,       \* pinStatesRef.current: the mapping pin -> value
    pinStateListeners,  \* pinStateListeners.current: the Set of callbacks, in insertion order
    cb,                 \* cb[c]: what is known of callback c (subscription, invocations)
    pass,               \* the last notification pass of setPinStates
    nwrites             \* the store writes made so far

VARIABLES
    lines,      \* the source text handed to injectLoopSafety, line by line
    result      \* what injectLoopSafety returned for it, line by line

VARIABLES
    applied,    \* the messages of out the overlay's onmessage has handled
    requested,  \* the calls of runCode so far; the last of them is the current run
    started,    \* the runs whose guest code the worker has started
    clearedAt   \* the value of applied when runCode last replaced the store

VARIABLES
    placedComponents,  \* the ids of the components on the board
    wires,             \* the wire objects, in the order they were made
    wiring,            \* componentId -> esp32Pin (Undefined: no entry)
    wireInProgress,    \* the wire being placed, or NoWire
    wireOp             \* the wiring function called last

shimVars == <<INPUT_STATES, pins, written, lastInput, ret, ncalls, guest>>
storeVars == <<pinStatesRef, pinStateListeners, cb, pass, nwrites>>
injectVars == <<lines, result>>
bridgeVars == <<applied, requested, started, clearedAt>>
wireVars == <<placedComponents, wires, wiring, wireInProgress, wireOp>>
workerVars == <<inbox, h, pyodide, sysStdout, capture, task, ready, sleepers, graces, blocked, loading, nextId>>

vars == <<inbox, h, pyodide, sysStdout, capture, task, ready, sleepers, graces, blocked, out, loading, nextId,
          shimVars, storeVars, injectVars, bridgeVars, wireVars>>

\* ---- guest scripts, given after injectLoopSafety ----
\* W: a shim write (Pin.value(v)), P: print(), Y: the injected await asyncio.sleep(0.02),
\* X: a statement that raises, S: a loop written on its header line (nothing injected).
OpW(p, v) == [op |-> "W", pin |-> p, val |-> v]
OpP == [op |-> "P", pin |-> 0, val |-> 0]
OpY == [op |-> "Y", pin |-> 0, val |-> 0]
OpX == [op |-> "X", pin |-> 0, val |-> 0]
OpS == [op |-> "S", pin |-> 0, val |-> 0]

Codes == {"once", "twice", "loop", "raise", "syntax", "spin"}

Script(code) ==
    CASE code = "once"   -> [compiles |-> TRUE,  loops |-> FALSE, ops |-> <<OpW(2, 1), OpP>>]
      [] code = "twice"  -> [compiles |-> TRUE,  loops |-> FALSE, ops |-> <<OpW(2, 1), OpW(2, 0), OpP>>]
      [] code = "loop"   -> [compiles |-> TRUE,  loops |-> TRUE,  ops |-> <<OpY, OpW(2, 1), OpP>>]
      [] code = "raise"  -> [compiles |-> TRUE,  loops |-> FALSE, ops |-> <<OpW(2, 1), OpX>>]
      [] code = "syntax" -> [compiles |-> FALSE, loops |-> FALSE, ops |-> <<>>]
      [] code = "spin"   -> [compiles |-> TRUE,  loops |-> FALSE, ops |-> <<OpW(2, 1), OpS>>]

HasYield(code) == \E k \in 1 .. Len(Script(code).ops) : Script(code).ops[k].op = "Y"

\* ---- messages the worker posts; id is the invocation that posted it (not on the wire) ----
Msg(t, s, p, v, o, i) == [type |-> t, status |-> s, pin |-> p, value |-> v, output |-> o, id |-> i]
Status(s, i) == Msg("STATUS", s, 0, 0, {}, i)
PinUpdate(p, v, r) == Msg("PIN_UPDATE", "", p, v, {}, r)
Output(o, r) == Msg("OUTPUT", "", 0, 0, o, r)
ExecutionComplete(r) == Msg("EXECUTION_COMPLETE", "", 0, 0, {}, r)
Error(s, i) == Msg("ERROR", s, 0, 0, {}, i)
Stopped(i) == Msg("STOPPED", "", 0, 0, {}, i)

NoHandler == [type |-> "NONE", code |-> "", pc |-> "none", timer |-> 0, interp |-> 0]
NoTask == [st |-> "none", pc |-> 0, cancel |-> FALSE, rem |-> 0, interp |-> 0]

LiveStates == {"new", "sleeping", "woken", "spinning"}

\* ---- the hardware shim's state ----
PinIds == 0 .. NumPins - 1
ModelPins == {0, 39}     \* the indices the guest code and the application use: a button pin, a ground pin
Values == {0, 1}

NoCall == [call |-> "none", obj |-> 0, arg |-> Undefined, result |-> Undefined]

\* INPUT_STATES = new Array(40).fill(0); no guest code has run
ShimInit ==
    /\ INPUT_STATES = [p \in PinIds |-> 0]
    /\ pins = <<>>
    /\ written = <<>>
    /\ lastInput = [p \in PinIds |-> Undefined]
    /\ ret = NoCall
    /\ ncalls = 0
    /\ guest = "idle"

\* ---- the pin state store's state ----
CbIds == 1 .. MaxSubs
StorePins == {2}                                      \* the pin the store is followed for: the LED pin
MappedPins == StorePins \cup {4}                      \* the keys of the mapping: a second pin the guest code writes
EmptyMapping == [p \in MappedPins |-> Undefined]     \* useRef({})

\* st: "new" (not yet handed to subscribe), "sub", "unsub"; calls: invocations so far;
\* args: the number of arguments of the last invocation; seen: the mapping the callback
\* pulled from pinStatesRef.current at its last invocation; due: the writes begun while
\* the callback was subscribed; cut: 1 once it was deleted from inside a pass before its turn
NoCb == [st |-> "new", calls |-> 0, args |-> 0, seen |-> EmptyMapping, due |-> 0, cut |-> 0]
\* before: the Set when the pass began; log: the invocations and the deletions made from
\* inside the pass, in order; updater: the argument of the write
NoPass == [before |-> <<>>, log |-> <<>>, updater |-> [kind |-> "none", m |-> EmptyMapping, pin |-> 0, value |-> 0]]

StoreInit ==
    /\ pinStatesRef = EmptyMapping
    /\ pinStateListeners = <<>>
    /\ cb = [c \in CbIds |-> NoCb]
    /\ pass = NoPass
    /\ nwrites = 0

\* ---- no source text handed to injectLoopSafety ----
InjectIdle ==
    /\ lines = <<>>
    /\ result = <<>>

WorkerInit ==
    /\ inbox = <<1>>
    /\ h = [i \in MsgIds |-> IF i = 1 THEN [NoHandler EXCEPT !.type = "INIT", !.pc = "queued"] ELSE NoHandler]
    /\ pyodide = 0
    /\ sysStdout = [p \in MsgIds |-> 0]
    /\ capture = [r \in MsgIds |-> {}]
    /\ task = [r \in MsgIds |-> NoTask]
    /\ ready = <<>>
    /\ sleepers = <<>>
    /\ graces = <<>>
    /\ blocked = FALSE
    /\ out = <<>>
    /\ loading = TRUE
    /\ nextId = 2

\* ---- the way of a PIN_UPDATE to the store: nothing sent, nothing applied ----
BridgeInit ==
    /\ applied = 0
    /\ requested = 0
    /\ started = 0
    /\ clearedAt = 0

\* ---- the wiring state of CodingContext ----
Comps == {1, 2}                    \* the components placed on the board
EspPins == {2, 39}                 \* ESP32 pins a wire ends on
CompPinNames == {"anode", "cathode"}
EspPin(n) == [type |-> "esp32", componentId |-> 0, pinNumber |-> n, pinName |-> ""]
CompPin(c, name) == [type |-> "component", componentId |-> c, pinNumber |-> Undefined, pinName |-> name]
PinInfos == {EspPin(n) : n \in EspPins} \cup {CompPin(c, name) : c \in Comps, name \in CompPinNames}
NoWire == [startPin |-> [type |-> "none", componentId |-> 0, pinNumber |-> Undefined, pinName |-> ""]]

\* useState({}), useState([]), useState(null); two components are on the board
WireInit ==
    /\ placedComponents = Comps
    /\ wires = <<>>
    /\ wiring = [c \in Comps |-> Undefined]
    /\ wireInProgress = NoWire
    /\ wireOp = "none"

Init ==
    /\ WorkerInit
    /\ ShimInit
    /\ StoreInit
    /\ InjectIdle
    /\ BridgeInit
    /\ WireInit

\* ---- the application side (the coding overlay) ----
Post(t, c) ==
    /\ nextId <= MaxMsgs
    /\ inbox' = Append(inbox, nextId)
    /\ h' = [h EXCEPT ![nextId] = [NoHandler EXCEPT !.type = t, !.code = c, !.pc = "queued"]]
    /\ nextId' = nextId + 1

Sent(t) == {i \in MsgIds : h[i].type = t}

\* runCode: returns at once while loading, else posts RUN_CODE with the editor's text
\* (its setPinStates({}) is followed with the store, in requestRun)
runCode(c) ==
    /\ ~loading
    /\ Cardinality(Sent("RUN_CODE")) < MaxRuns
    /\ Post("RUN_CODE", c)
    /\ UNCHANGED <<pyodide, sysStdout, capture, task, ready, sleepers, graces, blocked, out, loading>>
    /\ UNCHANGED <<shimVars, storeVars, injectVars, bridgeVars, wireVars>>

\* the same as a call into the worker's thread, which waits while a guest step has it
stopCodeOnWorkerThread ==
    /\ ~blocked
    /\ Cardinality(Sent("STOP")) < MaxStops
    /\ Post("STOP", "")
    /\ UNCHANGED <<pyodide, sysStdout, capture, task, ready, sleepers, graces, blocked, out, loading>>
    /\ UNCHANGED <<shimVars, storeVars, injectVars, bridgeVars, wireVars>>

\* stopCode: posts STOP, whatever the state
stopCode ==
    /\ Cardinality(Sent("STOP")) < MaxStops
    /\ Post("STOP", "")
    /\ UNCHANGED <<pyodide, sysStdout, capture, task, ready, sleepers, graces, blocked, out, loading>>
    /\ UNCHANGED <<shimVars, storeVars, injectVars, bridgeVars, wireVars>>

\* workerRef.current.onmessage, STATUS ready / STATUS error: setLoading(false).
\* loading is never set again, so only the first such message changes it.
onStatus ==
    /\ loading
    /\ \E k \in 1 .. Len(out) : out[k].type = "STATUS" /\ out[k].status \in {"ready", "error"}
    /\ loading' = FALSE
    /\ UNCHANGED <<inbox, h, pyodide, sysStdout, capture, task, ready, sleepers, graces, blocked, out, nextId>>
    /\ UNCHANGED <<shimVars, storeVars, injectVars, bridgeVars, wireVars>>

\* ---- the worker ----
\* RUN_CODE from the capture set-up to the call of runPythonAsync(wrappedCode), on
\* interpreter p: a new OutputCapture becomes sys.stdout, the wrapped source is queued
\* for evaluation on the interpreter's event loop.
RunStart(i, p) ==
    /\ capture' = [capture EXCEPT ![i] = {}]
    /\ sysStdout' = [sysStdout EXCEPT ![p] = i]
    /\ ready' = Append(ready, <<"eval", i>>)
    /\ h' = [h EXCEPT ![i].pc = "eval", ![i].interp = p]

\* initializePyodide up to its await: returns at once when pyodide is set, else posts
\* STATUS loading and calls loadPyodide
initializePyodide(i) ==
    IF pyodide # 0
    THEN /\ h' = [h EXCEPT ![i].pc = "done"]
         /\ out' = out
    ELSE /\ h' = [h EXCEPT ![i].pc = "load"]
         /\ out' = Append(out, Status("loading", i))

Dispatching(t) == inbox # <<>> /\ ~blocked /\ h[Head(inbox)].type = t

onInit ==
    /\ Dispatching("INIT")
    /\ inbox' = Tail(inbox)
    /\ initializePyodide(Head(inbox))
    /\ UNCHANGED <<pyodide, sysStdout, capture, task, ready, sleepers, graces, blocked, loading, nextId>>
    /\ UNCHANGED <<shimVars, storeVars, injectVars, bridgeVars, wireVars>>

onRunCode ==
    /\ Dispatching("RUN_CODE")
    /\ inbox' = Tail(inbox)
    /\ IF pyodide = 0
       THEN /\ initializePyodide(Head(inbox))
            /\ UNCHANGED <<sysStdout, capture, ready>>
       ELSE /\ RunStart(Head(inbox), pyodide)
            /\ out' = out
    /\ UNCHANGED <<pyodide, task, sleepers, graces, blocked, loading, nextId>>
    /\ UNCHANGED <<shimVars, storeVars, injectVars, bridgeVars, wireVars>>

\* the STOP branch when pyodide is null: nothing to cancel, STOPPED is posted
StopNoInterpreterSilent(i) ==
    /\ out' = out
    /\ h' = [h EXCEPT ![i].pc = "done"]
    /\ ready' = ready

StopNoInterpreter(i) ==
    /\ out' = Append(out, Stopped(i))
    /\ h' = [h EXCEPT ![i].pc = "done"]
    /\ ready' = ready

onStop ==
    /\ Dispatching("STOP")
    /\ LET i == Head(inbox) IN
         /\ inbox' = Tail(inbox)
         /\ IF pyodide # 0
            THEN /\ ready' = Append(ready, <<"stop", i>>)
                 /\ h' = [h EXCEPT ![i].pc = "stopeval", ![i].interp = pyodide]
                 /\ out' = out
            ELSE StopNoInterpreter(i)
    /\ UNCHANGED <<pyodide, sysStdout, capture, task, sleepers, graces, blocked, loading, nextId>>
    /\ UNCHANGED <<shimVars, storeVars, injectVars, bridgeVars, wireVars>>

\* loadPyodide resolves and the invocation ends there, also that of a RUN_CODE
loadResolvedEnds(i) ==
    /\ ~blocked
    /\ h[i].pc = "load"
    /\ pyodide' = i
    /\ out' = Append(out, Status("ready", i))
    /\ h' = [h EXCEPT ![i].pc = "done"]
    /\ UNCHANGED <<sysStdout, capture, ready>>
    /\ UNCHANGED <<inbox, task, sleepers, graces, blocked, loading, nextId>>
    /\ UNCHANGED <<shimVars, storeVars, injectVars, bridgeVars, wireVars>>

\* loadPyodide resolves: pyodide is assigned, the machine module registered, STATUS
\* ready posted; a RUN_CODE invocation goes on with the run.
loadResolved(i) ==
    /\ ~blocked
    /\ h[i].pc = "load"
    /\ pyodide' = i
    /\ out' = Append(out, Status("ready", i))
    /\ IF h[i].type = "RUN_CODE"
       THEN RunStart(i, i)
       ELSE /\ h' = [h EXCEPT ![i].pc = "done"]
            /\ UNCHANGED <<sysStdout, capture, ready>>
    /\ UNCHANGED <<inbox, task, sleepers, graces, blocked, loading, nextId>>
    /\ UNCHANGED <<shimVars, storeVars, injectVars, bridgeVars, wireVars>>

\* loadPyodide rejects: ERROR and STATUS error; a RUN_CODE invocation goes on to
\* pyodide.runPython, which throws on null and is caught by the handler's catch.
loadRejected(i) ==
    /\ ~blocked
    /\ h[i].pc = "load"
    /\ LET o == out \o <<Error("load", i), Status("error", i)>> IN
         IF h[i].type = "RUN_CODE"
         THEN IF pyodide = 0
              THEN /\ out' = Append(o, Error("null", i))
                   /\ h' = [h EXCEPT ![i].pc = "done"]
                   /\ UNCHANGED <<sysStdout, capture, ready>>
              ELSE /\ out' = o
                   /\ RunStart(i, pyodide)
         ELSE /\ out' = o
              /\ h' = [h EXCEPT ![i].pc = "done"]
              /\ UNCHANGED <<sysStdout, capture, ready>>
    /\ UNCHANGED <<inbox, pyodide, task, sleepers, graces, blocked, loading, nextId>>
    /\ UNCHANGED <<shimVars, storeVars, injectVars, bridgeVars, wireVars>>


\* ---- the guest interpreter ----
\* One step of the task of run r, from position pc of its script to the next suspension
\* point, to the end, to a raise, or into a loop that never suspends.  o is the worker's
\* output so far, cap the capture objects, target the capture sys.stdout is bound to.
\* Pin.value(v) posts PIN_UPDATE synchronously; print() writes to the current sys.stdout.
\* the same step were the thread given back to the event loop after every shim write
RECURSIVE ExecYieldingAtWrites(_, _, _, _, _, _)
ExecYieldingAtWrites(r, code, pc, o, cap, target) ==
    LET ops == Script(code).ops IN
    IF pc > Len(ops)
    THEN IF Script(code).loops
         THEN ExecYieldingAtWrites(r, code, 1, o, cap, target)
         ELSE [st |-> "done", pc |-> pc, out |-> o, capture |-> cap]
    ELSE CASE ops[pc].op = "W" ->
                [st |-> "sleeping", pc |-> pc + 1,
                 out |-> Append(o, PinUpdate(ops[pc].pin, ops[pc].val, r)), capture |-> cap]
           [] ops[pc].op = "P" ->
                ExecYieldingAtWrites(r, code, pc + 1, o,
                     IF target = 0 THEN cap ELSE [cap EXCEPT ![target] = @ \cup {r}], target)
           [] ops[pc].op = "Y" -> [st |-> "sleeping", pc |-> pc + 1, out |-> o, capture |-> cap]
           [] ops[pc].op = "X" -> [st |-> "failed", pc |-> pc, out |-> o, capture |-> cap]
           [] ops[pc].op = "S" -> [st |-> "spinning", pc |-> pc, out |-> o, capture |-> cap]

RECURSIVE Exec(_, _, _, _, _, _)
Exec(r, code, pc, o, cap, target) ==
    LET ops == Script(code).ops IN
    IF pc > Len(ops)
    THEN IF Script(code).loops
         THEN Exec(r, code, 1, o, cap, target)
         ELSE [st |-> "done", pc |-> pc, out |-> o, capture |-> cap]
    ELSE CASE ops[pc].op = "W" ->
                Exec(r, code, pc + 1, Append(o, PinUpdate(ops[pc].pin, ops[pc].val, r)), cap, target)
           [] ops[pc].op = "P" ->
                Exec(r, code, pc + 1, o,
                     IF target = 0 THEN cap ELSE [cap EXCEPT ![target] = @ \cup {r}], target)
           [] ops[pc].op = "Y" -> [st |-> "sleeping", pc |-> pc + 1, out |-> o, capture |-> cap]
           [] ops[pc].op = "X" -> [st |-> "failed", pc |-> pc, out |-> o, capture |-> cap]
           [] ops[pc].op = "S" -> [st |-> "spinning", pc |-> pc, out |-> o, capture |-> cap]

\* the task of run r runs one step and the event loop gets the thread back, unless the
\* step never ends
RunTask(r, others) ==
    LET e == Exec(r, h[r].code, task[r].pc, out, capture, sysStdout[task[r].interp]) IN
      /\ out' = e.out
      /\ capture' = e.capture
      /\ task' = [task EXCEPT ![r].st = e.st, ![r].pc = e.pc, ![r].rem = SleepTicks]
      /\ sleepers' = IF e.st = "sleeping" THEN Append(others, r) ELSE others
      /\ blocked' = (e.st = "spinning")

\* the wrapped source of run i is evaluated: a source that does not compile rejects the
\* promise of runPythonAsync and the handler's catch posts ERROR; otherwise
\* asyncio.ensure_future(__main__()) schedules the task, the promise resolves and the
\* handler starts the grace timer.
\* the handler's wait after runPythonAsync, in ticks
NoGraceTimer == GraceTicks - GraceTicks

GraceTimer == GraceTicks

\* the catch of the RUN_CODE branch: ERROR is posted, the interpreter is kept
CatchDropsInterpreter(i) ==
    /\ out' = Append(out, Error("run", i))
    /\ h' = [h EXCEPT ![i].pc = "done"]
    /\ pyodide' = 0

Catch(i) ==
    /\ out' = Append(out, Error("run", i))
    /\ h' = [h EXCEPT ![i].pc = "done"]
    /\ pyodide' = pyodide

evalRun ==
    /\ ~blocked
    /\ ready # <<>>
    /\ Head(ready)[1] = "eval"
    /\ LET i == Head(ready)[2] IN
         IF Script(h[i].code).compiles
         THEN /\ task' = [task EXCEPT ![i] = [NoTask EXCEPT !.st = "new", !.pc = 1, !.interp = h[i].interp]]
              /\ ready' = Append(Tail(ready), <<"step", i>>)
              /\ h' = [h EXCEPT ![i].pc = "grace", ![i].timer = GraceTimer]
              /\ graces' = Append(graces, i)
              /\ UNCHANGED <<out, pyodide>>
         ELSE /\ Catch(i)
              /\ ready' = Tail(ready)
              /\ UNCHANGED <<task, graces>>
    /\ UNCHANGED <<inbox, sysStdout, capture, sleepers, blocked, loading, nextId>>
    /\ UNCHANGED <<shimVars, storeVars, injectVars, bridgeVars, wireVars>>

\* the tasks asyncio.all_tasks() returns in interpreter p
AllTasks(p) == {r \in MsgIds : task[r].interp = p /\ task[r].st \in {"new", "sleeping", "woken"}}

\* the tasks of set S in the order of their ids
RECURSIVE SetToSeq(_)
SetToSeq(S) ==
    IF S = {} THEN <<>>
    ELSE LET m == CHOOSE x \in S : \A y \in S : x <= y IN <<m>> \o SetToSeq(S \ {m})

Steps(S) == [k \in 1 .. Cardinality(S) |-> <<"step", SetToSeq(S)[k]>>]

Without(q, S) == SelectSeq(q, LAMBDA x : x \notin S)

\* task.cancel() on every task of interpreter p: the cancellation is delivered at the
\* task's next step; a task waiting in a sleep is woken for it
CancelNone(p) ==
    /\ task' = task
    /\ ready' = Tail(ready)
    /\ sleepers' = sleepers

CancelAll(p) ==
    /\ task' = [r \in MsgIds |->
                  IF r \in AllTasks(p)
                  THEN [task[r] EXCEPT !.cancel = TRUE,
                                       !.st = IF task[r].st = "sleeping" THEN "woken" ELSE @]
                  ELSE task[r]]
    /\ ready' = Tail(ready) \o Steps({r \in AllTasks(p) : task[r].st = "sleeping"})
    /\ sleepers' = Without(sleepers, AllTasks(p))

\* the STOP source is evaluated on the interpreter the handler called, every task of it
\* cancelled; whether the promise of runPythonAsync resolves or rejects (the empty
\* catch), the handler posts STOPPED
evalStop ==
    /\ ~blocked
    /\ ready # <<>>
    /\ Head(ready)[1] = "stop"
    /\ LET i == Head(ready)[2] IN
         /\ CancelAll(h[i].interp)
         /\ out' = Append(out, Stopped(i))
         /\ h' = [h EXCEPT ![i].pc = "done"]
    /\ UNCHANGED <<inbox, pyodide, sysStdout, capture, graces, blocked, loading, nextId>>
    /\ UNCHANGED <<shimVars, storeVars, injectVars, bridgeVars, wireVars>>

\* a step of a task that is due at once: its first step, or the step that delivers a
\* cancellation.  CancelledError is thrown at the point where the task waits; inside
\* __main__ it is caught by except asyncio.CancelledError, before the first step the
\* coroutine is never entered.
taskStep ==
    /\ ~blocked
    /\ ready # <<>>
    /\ Head(ready)[1] = "step"
    /\ ready' = Tail(ready)
    /\ LET r == Head(ready)[2] IN
         IF task[r].cancel
         THEN /\ task' = [task EXCEPT ![r].st = "cancelled"]
              /\ UNCHANGED <<out, capture, sleepers, blocked>>
         ELSE RunTask(r, sleepers)
    /\ UNCHANGED <<inbox, h, pyodide, sysStdout, graces, loading, nextId>>
    /\ UNCHANGED <<shimVars, storeVars, injectVars, bridgeVars, wireVars>>

\* the sleep of task r is over and the task goes on after its suspension point; timers
\* of the same delay expire in the order they were set
taskWake(r) ==
    /\ ~blocked
    /\ sleepers # <<>>
    /\ r = Head(sleepers)
    /\ task[r].rem = 0
    /\ RunTask(r, Tail(sleepers))
    /\ UNCHANGED <<inbox, h, pyodide, sysStdout, ready, graces, loading, nextId>>
    /\ UNCHANGED <<shimVars, storeVars, injectVars, bridgeVars, wireVars>>

\* the end of the RUN_CODE branch without its last postMessage
graceOverOutputOnly(i) ==
    /\ ~blocked
    /\ graces # <<>>
    /\ i = Head(graces)
    /\ h[i].timer = 0
    /\ graces' = Tail(graces)
    /\ sysStdout' = [sysStdout EXCEPT ![pyodide] = 0]
    /\ out' = Append(out, Output(capture[i], i))
    /\ h' = [h EXCEPT ![i].pc = "done"]
    /\ UNCHANGED <<inbox, pyodide, capture, task, ready, sleepers, blocked, loading, nextId>>
    /\ UNCHANGED <<shimVars, storeVars, injectVars, bridgeVars, wireVars>>

\* the grace period of run i is over (timers of the same delay expire in the order they
\* were set): the handler reads its capture, puts sys.stdout
\* back on the current interpreter and posts OUTPUT, then EXECUTION_COMPLETE
graceOver(i) ==
    /\ ~blocked
    /\ graces # <<>>
    /\ i = Head(graces)
    /\ h[i].timer = 0
    /\ graces' = Tail(graces)
    /\ sysStdout' = [sysStdout EXCEPT ![pyodide] = 0]
    /\ out' = out \o <<Output(capture[i], i), ExecutionComplete(i)>>
    /\ h' = [h EXCEPT ![i].pc = "done"]
    /\ UNCHANGED <<inbox, pyodide, capture, task, ready, sleepers, blocked, loading, nextId>>
    /\ UNCHANGED <<shimVars, storeVars, injectVars, bridgeVars, wireVars>>

\* ---- time ----
Due == \/ ready # <<>>
       \/ \E r \in MsgIds : task[r].st = "sleeping" /\ task[r].rem = 0
       \/ \E i \in MsgIds : h[i].pc = "grace" /\ h[i].timer = 0

Pending == \/ \E r \in MsgIds : task[r].st = "sleeping"
           \/ \E i \in MsgIds : h[i].pc = "grace"

\* 20 ms pass: every callback that is due runs before a later timer expires
tick ==
    /\ ~blocked
    /\ ~Due
    /\ Pending
    /\ Len(out) < MaxOut
    /\ task' = [r \in MsgIds |-> IF task[r].st = "sleeping" THEN [task[r] EXCEPT !.rem = @ - 1] ELSE task[r]]
    /\ h' = [i \in MsgIds |-> IF h[i].pc = "grace" THEN [h[i] EXCEPT !.timer = @ - 1] ELSE h[i]]
    /\ UNCHANGED <<inbox, pyodide, sysStdout, capture, ready, sleepers, graces, blocked, out, loading, nextId>>
    /\ UNCHANGED <<shimVars, storeVars, injectVars, bridgeVars, wireVars>>

Next ==
    \/ \E c \in Codes : runCode(c)
    \/ stopCode
    \/ onStatus
    \/ onInit
    \/ onRunCode
    \/ onStop
    \/ \E i \in MsgIds : loadResolved(i)
    \/ \E i \in MsgIds : loadRejected(i)
    \/ evalRun
    \/ evalStop
    \/ taskStep
    \/ \E r \in MsgIds : taskWake(r)
    \/ \E i \in MsgIds : graceOver(i)
    \/ tick

Spec == Init /\ [][Next]_vars

\* ---- what the posted messages show ----
Idx == 1 .. Len(out)
Posted(t, i) == {k \in Idx : out[k].type = t /\ out[k].id = i}
Runs == Sent("RUN_CODE")
Terminal(k) == out[k].type \in {"OUTPUT", "EXECUTION_COMPLETE"}

C2_NoLeakAcrossRuns ==
    Sent("STOP") = {} =>
        \A k \in Idx : out[k].type = "OUTPUT" => out[k].output \subseteq {out[k].id}

\* C3: at most one run's guest task is live at any moment.
C3_OneLiveTask ==
    Cardinality({r \in MsgIds : task[r].st \in LiveStates}) <= 1

\* ---- fairness: the worker's event loop runs every callback that is due, and
\* loadPyodide settles; the application is free to post or not ----
FairSpec ==
    /\ Spec
    /\ WF_vars(onInit)
    /\ WF_vars(onRunCode)
    /\ WF_vars(onStop)
    /\ WF_vars(\E i \in MsgIds : loadResolved(i) \/ loadRejected(i))
    /\ WF_vars(evalRun)
    /\ WF_vars(evalStop)
    /\ WF_vars(taskStep)
    /\ WF_vars(\E r \in MsgIds : taskWake(r))
    /\ WF_vars(\E i \in MsgIds : graceOver(i))

\* C4 (as claimed): every STOP sent is eventually answered by exactly one STOPPED, in
\* every host state, and the STOP handler posts no ERROR.
C4_EveryStopAnswered ==
    /\ [](\A i \in Sent("STOP") : Cardinality(Posted("STOPPED", i)) <= 1 /\ Posted("ERROR", i) = {})
    /\ \A i \in MsgIds : (h[i].type = "STOP") ~> (Posted("STOPPED", i) # {})

\* C4 (amended): every STOP sent is eventually answered by exactly one STOPPED, and the
\* STOP handler posts no ERROR, unless a guest step that never suspends holds the worker
\* thread: then the message is never dispatched.
C4_StopAnsweredUnlessBlocked ==
    /\ [](\A i \in Sent("STOP") : Cardinality(Posted("STOPPED", i)) <= 1 /\ Posted("ERROR", i) = {})
    /\ \A i \in MsgIds : (h[i].type = "STOP") ~> (Posted("STOPPED", i) # {} \/ blocked)

\* a STOP was answered while a run was in progress, and its task cancelled
C4_Witness ==
    \E i \in Sent("STOP") : \E r \in Runs :
        /\ Posted("STOPPED", i) # {}
        /\ task[r].cancel
        /\ h[r].pc = "grace"

\* C5: the step that handles STOP on a loaded host cancels the task of every run that is
\* executing a script with a suspension point; from then on that task posts no
\* PIN_UPDATE, and the cancellation posts no ERROR.
C5_StopCancelsRunningTasks ==
    [][/\ \A i \in MsgIds : (h[i].pc = "stopeval" /\ h'[i].pc = "done") =>
             /\ Posted("STOPPED", i)' # {}
             /\ \A r \in MsgIds : (task[r].st \in {"new", "sleeping", "woken"} /\ HasYield(h[r].code))
                                    => task'[r].cancel
       /\ \A r \in MsgIds : task[r].cancel =>
             /\ task'[r].cancel
             /\ Posted("PIN_UPDATE", r)' = Posted("PIN_UPDATE", r)
             /\ Posted("ERROR", r)' = Posted("ERROR", r)]_vars

\* The same for the tasks of the interpreter the STOP handler calls only: this holds,
\* so C5 fails only where a second load (C9) has replaced the interpreter of a live task.
C5_StopCancelsTasksOfItsInterpreter ==
    [][/\ \A i \in MsgIds : (h[i].pc = "stopeval" /\ h'[i].pc = "done") =>
             /\ Posted("STOPPED", i)' # {}
             /\ \A r \in MsgIds : (task[r].st \in {"new", "sleeping", "woken"} /\ task[r].interp = h[i].interp)
                                    => task'[r].cancel
       /\ \A r \in MsgIds : task[r].cancel =>
             /\ task'[r].cancel
             /\ Posted("PIN_UPDATE", r)' = Posted("PIN_UPDATE", r)
             /\ Posted("ERROR", r)' = Posted("ERROR", r)]_vars

C7_OneExecutionCompletePerRun ==
    \A r \in Runs : h[r].pc = "done" => Cardinality(Posted("EXECUTION_COMPLETE", r)) = 1

\* C8: after a run on a loaded host has ended with ERROR, the interpreter is kept, the
\* run posts no STATUS, and every RUN_CODE handled from then on, once finished, has
\* posted its own OUTPUT and right after it EXECUTION_COMPLETE, and neither ERROR nor STATUS.
GuestErrors(i) == {k \in Posted("ERROR", i) : out[k].status = "run"}
OutputThenComplete(j) ==
    \E l \in Idx : l < Len(out) /\ out[l].type = "OUTPUT" /\ out[l].id = j /\ out[l + 1] = ExecutionComplete(j)

DispatchStep(t) == Dispatching(t) /\ inbox' = Tail(inbox)
HostLoading == \E j \in MsgIds : h[j].pc = "load"
NewLoad == \E j \in MsgIds : h[j].pc # "load" /\ h'[j].pc = "load"
NewStatus == \E k \in Len(out) + 1 .. Len(out') : out'[k].type = "STATUS"

\* C9: an INIT or RUN_CODE dispatched while the host is loading or ready starts no
\* interpreter load and posts no STATUS.
C9_InitializeIdempotent ==
    [][((DispatchStep("INIT") \/ DispatchStep("RUN_CODE")) /\ (pyodide # 0 \/ HostLoading))
          => (~NewLoad /\ ~NewStatus)]_vars

\* C10: once STATUS error is the last lifecycle status posted, a RUN_CODE starts neither
\* an interpreter load nor a guest execution.
ErrorState ==
    \E k \in Idx :
        /\ out[k].type = "STATUS" /\ out[k].status = "error"
        /\ \A l \in Idx : l > k => ~(out[l].type = "STATUS" /\ out[l].status = "ready")

C10_NoRunAfterStatusError ==
    [][(DispatchStep("RUN_CODE") /\ ErrorState)
          => (~NewLoad /\ h'[Head(inbox)].pc \notin {"load", "eval"})]_vars

\* C11: when the interpreter load fails the host posts STATUS loading, then ERROR, then
\* STATUS error, posts no STATUS ready for that attempt, and never becomes ready
\* afterwards: no STATUS ready follows a STATUS error.
C11_LoadFailureTerminal ==
    \A k \in Idx :
        (out[k].type = "STATUS" /\ out[k].status = "error") =>
            /\ k > 1
            /\ out[k - 1] = Error("load", out[k].id)
            /\ \E j \in 1 .. k - 1 : out[j] = Status("loading", out[k].id)
            /\ \A j \in Idx : out[j] # Status("ready", out[k].id)
            /\ \A j \in k + 1 .. Len(out) : ~(out[j].type = "STATUS" /\ out[j].status = "ready")

\* The messages of the failed attempt alone: loading, ERROR, error in that order and no
\* ready of that attempt.  This holds; what fails in C11 is that the failure is terminal.
C11_LoadFailureOrder ==
    \A k \in Idx :
        (out[k].type = "STATUS" /\ out[k].status = "error") =>
            /\ k > 1
            /\ out[k - 1] = Error("load", out[k].id)
            /\ \E j \in 1 .. k - 1 : out[j] = Status("loading", out[k].id)
            /\ \A j \in Idx : out[j] # Status("ready", out[k].id)

\* ---- the application's thread and the worker's ----
\* the bound of the model leaves a message to send
CanPost == nextId <= MaxMsgs

MsgsOf(i) == SelectSeq(out, LAMBDA m : m.id = i)

\* the PIN_UPDATE messages of the shim writes of a script, in the order of the writes
RECURSIVE WritesFrom(_, _, _)
WritesFrom(code, r, k) ==
    IF k > Len(Script(code).ops) THEN <<>>
    ELSE (IF Script(code).ops[k].op = "W"
          THEN <<PinUpdate(Script(code).ops[k].pin, Script(code).ops[k].val, r)>>
          ELSE <<>>) \o WritesFrom(code, r, k + 1)

\* a script with no suspension point that raises no exception and ends
RunsThrough(code) ==
    /\ Script(code).compiles
    /\ ~Script(code).loops
    /\ \A k \in 1 .. Len(Script(code).ops) : Script(code).ops[k].op \in {"W", "P"}

\* run i was handled on a ready host: its handler loaded no interpreter
OnReadyHost(i) == Posted("STATUS", i) = {} /\ Posted("ERROR", i) = {}

\* the messages of run i are the PIN_UPDATEs of its k writes in write order, then one
\* OUTPUT, then one EXECUTION_COMPLETE
WritesOutputComplete(i) ==
    LET w == WritesFrom(h[i].code, i, 1)
        m == MsgsOf(i)
    IN /\ Len(m) = Len(w) + 2
       /\ SubSeq(m, 1, Len(w)) = w
       /\ m[Len(w) + 1].type = "OUTPUT"
       /\ m[Len(w) + 2] = ExecutionComplete(i)

AutoInitialized(i) ==
    /\ \E k \in Posted("STATUS", i) : out[k] = Status("loading", i)
    /\ \E k \in Posted("STATUS", i) : out[k] = Status("ready", i)

AllWritesTogether(i) ==
    LET w == WritesFrom(h[i].code, i, 1) IN
    \E a \in Idx :
        /\ a + Len(w) - 1 <= Len(out)
        /\ SubSeq(out, a, a + Len(w) - 1) = w
        /\ Posted("PIN_UPDATE", i) = a .. a + Len(w) - 1

\* C28: a script with no suspension point cannot be interrupted: once its first
\* statement has run, all its shim writes happen whatever STOP is sent, so all its
\* PIN_UPDATEs are emitted, none of them after a STOPPED that follows the first of them.
C28_NoYieldScriptRunsThrough ==
    \A i \in Runs :
        (Script(h[i].code).compiles /\ ~HasYield(h[i].code) /\ Posted("PIN_UPDATE", i) # {}) =>
            /\ AllWritesTogether(i)
            /\ \A s \in Idx, k \in Posted("PIN_UPDATE", i) :
                  (out[s].type = "STOPPED" /\ \E l \in Posted("PIN_UPDATE", i) : l < s) => k < s

\* the script with two writes ran while a STOP waited in the worker's queue or for
\* its evaluation: both PIN_UPDATEs are posted, STOPPED after them and before the run's
\* OUTPUT
C28_Witness ==
    \E i \in Runs :
        /\ h[i].code = "twice"
        /\ Cardinality(Posted("PIN_UPDATE", i)) = 2
        /\ \E s \in Idx, o \in Posted("OUTPUT", i) :
             /\ out[s].type = "STOPPED"
             /\ s < o
             /\ \A k \in Posted("PIN_UPDATE", i) : k < s

\* ---- the hardware shim: Pin objects, INPUT_STATES and the INPUT_UPDATE branch ----
\* The worker is one thread, so the INPUT_UPDATE branch runs between two steps of the
\* guest code; here it may run between any two shim calls, which covers every such point.
\* x || 0
OrZero(x) == IF x = Undefined \/ x = 0 THEN 0 ELSE x

NewPinHigh(id, mode) == [id |-> id, mode |-> mode, _value |-> 1]

\* function Pin(id, mode): the object literal
NewPin(id, mode) == [id |-> id, mode |-> mode, _value |-> 0]

Objs == 1 .. Len(pins)

\* value() without argument, per mode
PinReadOwnValue(k) == pins[k]._value

PinReadRegister(k) == OrZero(INPUT_STATES[pins[k].id])

PinRead(k) ==
    IF pins[k].mode = PinIN
    THEN OrZero(INPUT_STATES[pins[k].id])
    ELSE pins[k]._value

\* value(val) with an argument: the object's own value is set and PIN_UPDATE posted
PinWriteCoalesced(k, val) ==
    /\ pins' = [pins EXCEPT ![k]._value = val]
    /\ out' = IF pins[k]._value = val THEN out ELSE Append(out, PinUpdate(pins[k].id, val, 0))

PinWrite(k, val) ==
    /\ pins' = [pins EXCEPT ![k]._value = val]
    /\ out' = Append(out, PinUpdate(pins[k].id, val, 0))

\* the body of value(val): a write when val is given, else a read
ValueBody(k, val) ==
    IF val # Undefined
    THEN /\ PinWrite(k, val)
         /\ written' = [written EXCEPT ![k] = val]
    ELSE UNCHANGED <<pins, out, written>>

ValueResult(k, val) == IF val # Undefined THEN val ELSE PinRead(k)

\* a shim call of the running guest code
Calling(k) ==
    /\ guest = "running"
    /\ k \in Objs
    /\ ncalls < MaxCalls
    /\ ncalls' = ncalls + 1
    /\ UNCHANGED <<INPUT_STATES, lastInput, guest, workerVars, storeVars, injectVars, bridgeVars, wireVars>>

\* the RUN_CODE branch, as far as the shim is concerned: guest code starts to run
guestStart ==
    /\ guest # "running"
    /\ guest' = "running"
    /\ UNCHANGED <<INPUT_STATES, pins, written, lastInput, ret, ncalls, out, workerVars, storeVars, injectVars, bridgeVars, wireVars>>

\* the STOP branch, as far as the shim is concerned: the guest code is cancelled
guestStop ==
    /\ guest = "running"
    /\ guest' = "idle"
    /\ UNCHANGED <<INPUT_STATES, pins, written, lastInput, ret, ncalls, out, workerVars, storeVars, injectVars, bridgeVars, wireVars>>

\* Pin(id, mode) called by the guest code
Pin(id, mode) ==
    /\ guest = "running"
    /\ Len(pins) < MaxPins
    /\ pins' = Append(pins, NewPin(id, mode))
    /\ written' = Append(written, Undefined)
    /\ ret' = [call |-> "Pin", obj |-> Len(pins) + 1, arg |-> Undefined, result |-> Undefined]
    /\ UNCHANGED <<INPUT_STATES, lastInput, ncalls, guest, out, workerVars, storeVars, injectVars, bridgeVars, wireVars>>

Pin_value(k, val) ==
    /\ Calling(k)
    /\ ValueBody(k, val)
    /\ ret' = [call |-> "value", obj |-> k, arg |-> val, result |-> ValueResult(k, val)]

\* on(): this.value(1), nothing returned
Pin_on(k) ==
    /\ Calling(k)
    /\ ValueBody(k, 1)
    /\ ret' = [call |-> "on", obj |-> k, arg |-> Undefined, result |-> Undefined]

\* off(): this.value(0), nothing returned
Pin_off(k) ==
    /\ Calling(k)
    /\ ValueBody(k, 0)
    /\ ret' = [call |-> "off", obj |-> k, arg |-> Undefined, result |-> Undefined]

\* self.onmessage, INPUT_UPDATE: the cell is set when pin and value are both there
onInputUpdateDrivesPins(p, v) ==
    /\ IF p # Undefined /\ v # Undefined
       THEN /\ INPUT_STATES' = [INPUT_STATES EXCEPT ![p] = v]
            /\ lastInput' = [lastInput EXCEPT ![p] = v]
            /\ pins' = [k \in Objs |-> IF pins[k].id = p THEN [pins[k] EXCEPT !._value = v] ELSE pins[k]]
       ELSE UNCHANGED <<INPUT_STATES, lastInput, pins>>
    /\ UNCHANGED <<written, ret, ncalls, guest, out, workerVars, storeVars, injectVars, bridgeVars, wireVars>>

onInputUpdate(p, v) ==
    /\ IF p # Undefined /\ v # Undefined
       THEN /\ INPUT_STATES' = [INPUT_STATES EXCEPT ![p] = v]
            /\ lastInput' = [lastInput EXCEPT ![p] = v]
            /\ pins' = pins
       ELSE UNCHANGED <<INPUT_STATES, lastInput, pins>>
    /\ UNCHANGED <<written, ret, ncalls, guest, out, workerVars, storeVars, injectVars, bridgeVars, wireVars>>

PinNext ==
    \/ guestStart
    \/ guestStop
    \/ \E id \in ModelPins, mode \in {PinIN, PinOUT} : Pin(id, mode)
    \/ \E k \in 1 .. MaxPins, val \in Values \cup {Undefined} : Pin_value(k, val)
    \/ \E k \in 1 .. MaxPins : Pin_on(k)
    \/ \E k \in 1 .. MaxPins : Pin_off(k)
    \/ \E p \in ModelPins \cup {Undefined}, v \in Values \cup {Undefined} : onInputUpdate(p, v)

PinSpec == Init /\ [][PinNext]_vars

\* ---- what a step of the shim is ----
CallStep == ncalls' = ncalls + 1
WriteStep == CallStep /\ (ret'.call \in {"on", "off"} \/ (ret'.call = "value" /\ ret'.arg # Undefined))
ReadStep == CallStep /\ ret'.call = "value" /\ ret'.arg = Undefined
WrittenValue == IF ret'.call = "on" THEN 1 ELSE IF ret'.call = "off" THEN 0 ELSE ret'.arg
InputStep == lastInput' # lastInput \/ INPUT_STATES' # INPUT_STATES
LastRead == ret.call = "value" /\ ret.arg = Undefined
\* what a register half that was never set reads as
Unset(x) == IF x = Undefined THEN 0 ELSE x

C13_InputHeldUntilNextUpdate ==
    [][ /\ (ReadStep /\ pins[ret'.obj].mode = PinIN /\ lastInput[pins[ret'.obj].id] # Undefined)
             => ret'.result = lastInput[pins[ret'.obj].id]
        /\ InputStep =>
             /\ out' = out
             /\ \A p \in PinIds : lastInput'[p] # Undefined => INPUT_STATES'[p] = lastInput'[p]
        /\ (WriteStep \/ guest' # guest) => INPUT_STATES' = INPUT_STATES
      ]_vars

\* pin 0 received INPUT_UPDATE 1, a different pin was written, the read of pin 0
\* returned 1, and the run was stopped with the cell still 1
C13_Witness ==
    /\ LastRead
    /\ guest = "idle"
    /\ INPUT_STATES[0] = 1
    /\ pins[ret.obj].mode = PinIN
    /\ pins[ret.obj].id = 0
    /\ lastInput[0] = 1
    /\ ret.result = 1
    /\ \E k \in Idx : out[k].type = "PIN_UPDATE" /\ out[k].pin # 0

\* C14: every write call (value(v), on(), off()) posts exactly one PIN_UPDATE with the
\* pin's index and the written value within the call, whatever the mode, the index and
\* the value written before; a read call posts nothing.
C14_OnePinUpdatePerWrite ==
    [][ /\ WriteStep => out' = Append(out, PinUpdate(pins[ret'.obj].id, WrittenValue, 0))
        /\ ReadStep => out' = out
      ]_vars

\* the same value written twice to an IN-mode pin of a ground index: two PIN_UPDATEs
C14_Witness ==
    /\ Len(out) >= 2
    /\ out[1] = PinUpdate(39, 1, 0)
    /\ out[2] = PinUpdate(39, 1, 0)
    /\ \E k \in Objs : pins[k].id = 39 /\ pins[k].mode = PinIN /\ written[k] = 1
    /\ ncalls = 2

WritesTo(p) == {k \in Idx : out[k].type = "PIN_UPDATE" /\ out[k].pin = p}
LastWrittenTo(p) == out[CHOOSE k \in WritesTo(p) : \A j \in WritesTo(p) : j <= k].value

\* C26: the output register is keyed by pin index: value() on an OUT-mode pin returns
\* the last value the guest code wrote to that index, whichever Pin object of that
\* index the write and the read go through.
C26_OutputRegisterKeyedByIndex ==
    [][ (ReadStep /\ pins[ret'.obj].mode = PinOUT /\ WritesTo(pins[ret'.obj].id) # {})
             => ret'.result = LastWrittenTo(pins[ret'.obj].id)
      ]_vars

\* ---- the pin state store of CodingContext: setPinStates / subscribeToPinStates ----
\* Every caller hands subscribeToPinStates a closure made in the effect that subscribes,
\* so a callback is subscribed once.  A callback, when invoked, pulls pinStatesRef.current
\* and may call the unsubscribe function of a subscription (its own or another one).
\* the argument of setPinStates at its call sites: the mapping {}, or the function
\* prev => ({...prev, [pin]: value})
Updaters ==
    {[kind |-> "replace", m |-> EmptyMapping, pin |-> 0, value |-> 0]}
    \cup {[kind |-> "function", m |-> EmptyMapping, pin |-> p, value |-> v] : p \in StorePins, v \in Values}

ApplyUpdater(u, cur) ==
    IF u.kind = "function" THEN [cur EXCEPT ![u.pin] = u.value] ELSE u.m

Range(q) == {q[k] : k \in 1 .. Len(q)}

\* what pinStatesRef.current holds while the listeners run: the assignment comes first
VisibleBeforeAssignment(old, new) == old

Visible(old, new) == new

\* the entries forEach still visits after a delete made from inside the pass
KeepDeleted(todo, d) == todo

SkipDeleted(todo, d) == SelectSeq(todo, LAMBDA x : x # d)

\* pinStateListeners.current.forEach(listener => listener()): the entries are visited in
\* insertion order, an entry deleted before its turn is not visited.  todo: the entries
\* still to visit; live: the Set; beh[c]: the subscription callback c deletes when it is
\* invoked (0: none); cur: pinStatesRef.current
RECURSIVE ForEach(_, _, _, _, _, _)
ForEach(todo, live, beh, cur, cbs, log) ==
    IF todo = <<>>
    THEN [live |-> live, cbs |-> cbs, log |-> log]
    ELSE LET c == Head(todo)
             d == beh[c]
             called == [cbs EXCEPT ![c].calls = @ + 1, ![c].args = 0, ![c].seen = cur]
             logc == Append(log, [ev |-> "call", c |-> c])
         IN IF d # 0 /\ d \in Range(live)
            THEN ForEach(SkipDeleted(Tail(todo), d),
                         SelectSeq(live, LAMBDA x : x # d),
                         beh, cur,
                         [called EXCEPT ![d].st = "unsub",
                                        ![d].cut = IF d \in Range(Tail(todo)) THEN 1 ELSE @],
                         Append(logc, [ev |-> "delete", c |-> d]))
            ELSE ForEach(Tail(todo), live, beh, cur, called, logc)

\* subscribeToPinStates(callback): Set.add.  The closures are numbered in the order
\* they are made and subscribed.
subscribeToPinStates(c) ==
    /\ cb[c].st = "new"
    /\ \A d \in 1 .. c - 1 : cb[d].st # "new"
    /\ pinStateListeners' = IF c \in Range(pinStateListeners) THEN pinStateListeners
                            ELSE Append(pinStateListeners, c)
    /\ cb' = [cb EXCEPT ![c].st = "sub"]
    /\ UNCHANGED <<pinStatesRef, pass, nwrites, out, workerVars, shimVars, injectVars, bridgeVars, wireVars>>

\* the function subscribeToPinStates returned, called outside a pass: Set.delete
unsubscribeKeepsEntry(c) ==
    /\ cb[c].st = "sub"
    /\ pinStateListeners' = pinStateListeners
    /\ cb' = [cb EXCEPT ![c].st = "unsub"]
    /\ UNCHANGED <<pinStatesRef, pass, nwrites, out, workerVars, shimVars, injectVars, bridgeVars, wireVars>>

unsubscribe(c) ==
    /\ cb[c].st = "sub"
    /\ pinStateListeners' = SelectSeq(pinStateListeners, LAMBDA x : x # c)
    /\ cb' = [cb EXCEPT ![c].st = "unsub"]
    /\ UNCHANGED <<pinStatesRef, pass, nwrites, out, workerVars, shimVars, injectVars, bridgeVars, wireVars>>

\* setPinStates(updater): the mapping is assigned, then every listener is called
setPinStates(updater, beh) ==
    /\ nwrites < MaxWrites
    /\ \A c \in CbIds : beh[c] # 0 => (c \in Range(pinStateListeners) /\ beh[c] \in Range(pinStateListeners))
    /\ nwrites' = nwrites + 1
    /\ LET new == ApplyUpdater(updater, pinStatesRef)
           due == [c \in CbIds |-> IF cb[c].st = "sub"
                                   THEN [cb[c] EXCEPT !.due = @ + 1] ELSE cb[c]]
           e == ForEach(pinStateListeners, pinStateListeners, beh,
                        Visible(pinStatesRef, new), due, <<>>)
       IN /\ pinStatesRef' = new
          /\ pinStateListeners' = e.live
          /\ cb' = e.cbs
          /\ pass' = [before |-> pinStateListeners, log |-> e.log, updater |-> updater]
    /\ UNCHANGED <<out, workerVars, shimVars, injectVars, bridgeVars, wireVars>>

\* what the callbacks do when invoked: nothing (0), or delete a live subscription
Behaviours == [CbIds -> 0 .. MaxSubs]

StoreNext ==
    \/ \E c \in CbIds : subscribeToPinStates(c)
    \/ \E c \in CbIds : unsubscribe(c)
    \/ \E u \in Updaters, b \in Behaviours : setPinStates(u, b)

StoreSpec == Init /\ [][StoreNext]_vars

\* ---- what a store write is seen to do ----
StoreWrite == nwrites' = nwrites + 1
Listeners == Range(pinStateListeners)
Calls(c) == {k \in 1 .. Len(pass.log) : pass.log[k] = [ev |-> "call", c |-> c]}
Deletes(c) == {k \in 1 .. Len(pass.log) : pass.log[k] = [ev |-> "delete", c |-> c]}

\* C17: a store write sets the mapping (the replacement, or the updater function applied
\* to the current mapping) and then calls every registered subscriber once with no
\* argument; a subscriber called by the write finds the new mapping in pinStatesRef.
C17_SetThenNotify ==
    [][ StoreWrite =>
          /\ pinStatesRef' = ApplyUpdater(pass'.updater, pinStatesRef)
          /\ \A c \in CbIds :
               /\ cb'[c].calls \in {cb[c].calls, cb[c].calls + 1}
               /\ cb'[c].calls # cb[c].calls =>
                     /\ c \in Listeners
                     /\ cb'[c].seen = pinStatesRef'
                     /\ cb'[c].args = 0
               /\ (c \in Listeners /\ c \in Range(pinStateListeners')) => cb'[c].calls = cb[c].calls + 1
      ]_vars

\* an updater function was applied to the mapping an earlier write had left, and the
\* subscribers, all of them registered, found the new mapping
C17_Witness ==
    /\ nwrites >= 2
    /\ pass.updater.kind = "function"
    /\ pinStatesRef[2] = 0
    /\ Len(pass.before) = MaxSubs
    /\ \A c \in CbIds : cb[c].calls >= 1 /\ cb[c].seen = pinStatesRef /\ Calls(c) # {}

\* C18: a callback is invoked once for every store write made while it is subscribed
\* (none for the write in whose pass it was unsubscribed before its turn, the case of
\* C19) and never for a write made after its unsubscribe function was called.
C18_OneCallPerWriteWhileSubscribed ==
    /\ [](\A c \in CbIds : cb[c].calls = cb[c].due - cb[c].cut)
    /\ [][\A c \in CbIds : cb[c].st # "sub" => cb'[c].calls = cb[c].calls]_vars

\* a callback got a write while subscribed and its invocation, was unsubscribed outside
\* a pass, and a later write called another subscriber but not it
C18_Witness ==
    \E c \in CbIds :
        /\ cb[c].st = "unsub"
        /\ cb[c].calls = 1
        /\ cb[c].due = 1
        /\ cb[c].cut = 0
        /\ nwrites = 2
        /\ pass.before # <<>>
        /\ c \notin Range(pass.before)

\* C19: an unsubscribe made from inside a subscriber during a notification pass leaves
\* the pass intact: a subscriber registered when the pass began and not unsubscribed
\* during it is invoked exactly once, and a subscriber unsubscribed before its turn is
\* not invoked (no invocation follows its deletion).
C19_UnsubscribeDuringPass ==
    \A c \in Range(pass.before) :
        /\ Deletes(c) = {} => Cardinality(Calls(c)) = 1
        /\ \A i \in Deletes(c) : \A k \in Calls(c) : k < i
        /\ Cardinality(Calls(c)) <= 1

\* the first of three subscribers unsubscribed the second during the pass: the first
\* and the third were invoked, the second was not
C19_Witness ==
    /\ Len(pass.before) = 3
    /\ Deletes(pass.before[2]) # {}
    /\ Calls(pass.before[1]) # {}
    /\ Calls(pass.before[2]) = {}
    /\ Calls(pass.before[3]) # {}
    /\ Deletes(pass.before[1]) = {}
    /\ Deletes(pass.before[3]) = {}

\* ---- injectLoopSafety ----
\* A line is its indentation (the count of leading spaces) and its text after the
\* indentation, cut into tokens; " " is a run of spaces, "#" begins a comment.
WhileTrue == <<"while", " ", "True", ":">>
ForRange == <<"for", " ", "i", " ", "in", " ", "range(3)", ":">>
WhileInline == <<"while", " ", "True", ":", " ", "pass">>
WhileComment == <<"while", " ", "True", ":", " ", "#", "forever">>
WhileParen == <<"while", "(", "True", ")", ":">>
ForSlice == <<"for", " ", "c", " ", "in", " ", "s", "[", "1", ":", "]", ":">>
Statement == <<"led.on()">>
\* a list display over two lines: x = [i / for i in s]
ListOpen == <<"x", " ", "=", " ", "[", "i">>
ListFor == <<"for", " ", "i", " ", "in", " ", "s", "]">>
\* a line of blanks only (its indentation is its length)
Blank == <<>>
Texts == {WhileTrue, ForRange, WhileInline, WhileComment, WhileParen, ForSlice, Statement,
          ListOpen, ListFor, Blank}
Indents == {0, 2, 4, 8}
Lines == [indent : Indents, toks : Texts]

\* trimmed.startsWith(kw + ' ')
StartsWith(toks, kw) == Len(toks) >= 2 /\ toks[1] = kw /\ toks[2] = " "

\* line.indexOf(':'), as a token position (0: not found)
ColonIndex(toks) ==
    IF \E k \in 1 .. Len(toks) : toks[k] = ":"
    THEN CHOOSE k \in 1 .. Len(toks) : toks[k] = ":" /\ \A j \in 1 .. k - 1 : toks[j] # ":"
    ELSE 0

\* colonIndex !== -1 && line.substring(colonIndex + 1).trim().length > 0
HasBodyOnSameLine(toks) ==
    /\ ColonIndex(toks) # 0
    /\ \E k \in ColonIndex(toks) + 1 .. Len(toks) : toks[k] # " "

\* while (indentStack.length > 0 && currentIndent <= top) indentStack.pop()
RECURSIVE PopStack(_, _)
PopStack(stack, cur) ==
    IF stack # <<>> /\ cur <= stack[Len(stack)]
    THEN PopStack(SubSeq(stack, 1, Len(stack) - 1), cur)
    ELSE stack

\* a line of the result: a line of the source (src: its number) or the injected line
\* that follows source line src
Copied(line, i) == [indent |-> line.indent, toks |-> line.toks, injected |-> FALSE, src |-> i]
Injected(n, i) == [indent |-> n, toks |-> <<"await", " ", "asyncio.sleep(0.02)">>, injected |-> TRUE, src |-> i]

\* the for loop of injectLoopSafety from line i on
RECURSIVE InjectFrom(_, _, _, _)
InjectFrom(src, i, res, indentStack) ==
    IF i > Len(src)
    THEN res
    ELSE LET line == src[i]
             currentIndent == line.indent
             stack == PopStack(indentStack, currentIndent)
             isWhileLoop == StartsWith(line.toks, "while")
             isForLoop == StartsWith(line.toks, "for")
             nextIndent == IF i + 1 <= Len(src) /\ src[i + 1].indent > currentIndent
                           THEN src[i + 1].indent
                           ELSE currentIndent + IndentStep
         IN IF (isWhileLoop \/ isForLoop) /\ ~HasBodyOnSameLine(line.toks)
            THEN InjectFrom(src, i + 1,
                            res \o <<Copied(line, i), Injected(nextIndent, i)>>,
                            Append(stack, currentIndent))
            ELSE InjectFrom(src, i + 1, Append(res, Copied(line, i)), stack)

\* ---- the source texts: Python's view of a line ----
\* brackets open before token k
RECURSIVE Depth(_, _)
Depth(toks, k) ==
    IF k <= 1 THEN 0
    ELSE Depth(toks, k - 1) + (IF toks[k - 1] \in {"(", "["} THEN 1 ELSE 0)
                            - (IF toks[k - 1] \in {")", "]"} THEN 1 ELSE 0)

\* line i continues the statement of line i - 1, which leaves a bracket open
Continues(src, i) == i > 1 /\ Depth(src[i - 1].toks, Len(src[i - 1].toks) + 1) > 0

\* the lines a statement starts on: not blank, not inside brackets
Code(src) == {i \in 1 .. Len(src) : src[i].toks # Blank /\ ~Continues(src, i)}

\* the statement after the one of line i (0: none)
NextCode(src, i) ==
    IF \E j \in Code(src) : j > i
    THEN CHOOSE j \in Code(src) : j > i /\ \A k \in Code(src) : k > i => j <= k
    ELSE 0

\* a while or for statement
IsLoopHeader(toks) == toks # <<>> /\ toks[1] \in {"while", "for"}

\* the colon that ends the header: the first one outside brackets
HeaderColon(toks) == CHOOSE k \in 1 .. Len(toks) :
    /\ toks[k] = ":" /\ Depth(toks, k) = 0
    /\ \A j \in 1 .. k - 1 : ~(toks[j] = ":" /\ Depth(toks, j) = 0)

\* a statement follows the header's colon on the same line (a comment is none)
BodyOnHeaderLine(toks) ==
    \E k \in HeaderColon(toks) + 1 .. Len(toks) :
        /\ toks[k] \notin {" ", "#"}
        /\ \A j \in HeaderColon(toks) + 1 .. k - 1 : toks[j] # "#"

OpensBlock(line) == IsLoopHeader(line.toks) /\ ~BodyOnHeaderLine(line.toks)

\* line i is the header of a loop whose body is on the following lines
MultiLineLoop(src, i) == i \in Code(src) /\ OpensBlock(src[i])

\* source texts Python accepts: the first statement is not indented; the body of a loop
\* header is the next statement, deeper; any other statement is followed by one of its
\* own indentation or of an earlier, smaller one; blank lines count for nothing; an open
\* list display is closed by the next line
WellFormed(src) ==
    /\ 1 \in Code(src) /\ src[1].indent = 0
    /\ src[Len(src)].toks # Blank
    /\ \A i \in 1 .. Len(src) :
         /\ src[i].toks = ListFor <=> (i > 1 /\ src[i - 1].toks = ListOpen)
         /\ src[i].toks = ListOpen => i < Len(src)
    /\ \A i \in Code(src) :
         LET j == NextCode(src, i)
         IN IF OpensBlock(src[i])
            THEN j # 0 /\ src[j].indent > src[i].indent
            ELSE j # 0 => /\ src[j].indent <= src[i].indent
                          /\ \E k \in Code(src) : k <= i /\ src[k].indent = src[j].indent

Sources == {src \in UNION {[1 .. n -> Lines] : n \in 1 .. MaxLines} : WellFormed(src)}

InjectInit ==
    /\ WorkerInit
    /\ ShimInit
    /\ StoreInit
    /\ BridgeInit
    /\ WireInit
    /\ lines \in Sources
    /\ result = <<>>

\* const processedCode = injectLoopSafety(code)
injectLoopSafety ==
    /\ result = <<>>
    /\ result' = InjectFrom(lines, 1, <<>>, <<>>)
    /\ UNCHANGED <<lines, out, workerVars, shimVars, storeVars, bridgeVars, wireVars>>

InjectNext == injectLoopSafety

InjectSpec == InjectInit /\ [][InjectNext]_vars

InjectedFor(i) == {k \in 1 .. Len(result) : result[k].injected /\ result[k].src = i}

\* loop header i has exactly one injected line, and it is the line right after it
OneYieldAfter(i) ==
    /\ Cardinality(InjectedFor(i)) = 1
    /\ \E k \in 1 .. Len(result) - 1 :
         /\ result[k] = Copied(lines[i], i)
         /\ result[k + 1].injected /\ result[k + 1].src = i

\* C20: every while loop and every for loop whose body is not on the header line, nested
\* ones included, gets exactly one injected await asyncio.sleep(0.02), as the line right
\* after its header and first statement of its body.
C20_EveryLoopGetsOneYield ==
    result # <<>> =>
        \A i \in 1 .. Len(lines) : MultiLineLoop(lines, i) => OneYieldAfter(i)

\* The same for the loops the function recognises: a line that starts with "while " or
\* "for " and has only blanks after its first colon.  This holds, nested loops included.
C20_RecognisedLoopsGetOneYield ==
    result # <<>> =>
        \A i \in 1 .. Len(lines) :
            ((StartsWith(lines[i].toks, "while") \/ StartsWith(lines[i].toks, "for"))
             /\ ~HasBodyOnSameLine(lines[i].toks)
             /\ MultiLineLoop(lines, i)) => OneYieldAfter(i)

\* ---- C21 ----
\* no while or for statement of the text has its body on the following lines
NoMultiLineLoop == \A i \in 1 .. Len(lines) : ~MultiLineLoop(lines, i)

\* the result is the text, line for line
Identity ==
    /\ Len(result) = Len(lines)
    /\ \A k \in 1 .. Len(lines) : result[k] = Copied(lines[k], k)

\* C21: on a source text with no multi-line loop (no while or for header at all, or a
\* statement after the colon of every header) the rewriter is the identity: its output
\* equals its input.
C21_IdentityWithoutMultiLineLoop ==
    (result # <<>> /\ NoMultiLineLoop) => Identity

\* The same for the texts none of whose lines starts with "while " or "for ", which
\* holds: only such a line is followed by an injected one.
C21_IdentityWithoutLoopKeywordLine ==
    (result # <<>>
     /\ \A i \in 1 .. Len(lines) :
          ~StartsWith(lines[i].toks, "while") /\ ~StartsWith(lines[i].toks, "for"))
    => Identity

\* ---- C22 ----
\* the indentation of the body of loop header i: that of the statement after it
BodyIndent(i) == lines[NextCode(lines, i)].indent

\* C22: the injected line of a loop has the indentation of the loop's body when a
\* following line establishes an indentation deeper than the header's, and the header's
\* indentation plus 4 otherwise.
C22_InjectedAtBodyIndent ==
    \A k \in 1 .. Len(result) :
        (result[k].injected /\ MultiLineLoop(lines, result[k].src)) =>
            LET i == result[k].src
            IN result[k].indent =
                   IF NextCode(lines, i) # 0 /\ BodyIndent(i) > lines[i].indent
                   THEN BodyIndent(i)
                   ELSE lines[i].indent + IndentStep

\* The same when the body starts on the line right after the header, which holds: the
\* function reads the indentation of that line only.
C22_InjectedAtNextLineIndent ==
    \A k \in 1 .. Len(result) :
        (result[k].injected /\ MultiLineLoop(lines, result[k].src)
         /\ NextCode(lines, result[k].src) = result[k].src + 1) =>
            result[k].indent = BodyIndent(result[k].src)

\* ---- from the shim's PIN_UPDATE to the store ----
\* The worker's messages reach the overlay's onmessage in the order they were posted,
\* one task of the application's thread each.  The worker is followed as far as the
\* store can tell: a run is requested, its guest code is started, guest code writes
\* through the shim.  RUN_CODE cancels no task, so the guest code of every started run
\* may write.  No callback is subscribed to the store here.
BridgeRuns == 1 .. MaxRuns

\* runCode: setPinStates({}), then RUN_CODE is posted
requestRun ==
    /\ requested < MaxRuns
    /\ requested' = requested + 1
    /\ pinStatesRef' = ApplyUpdater([kind |-> "replace", m |-> EmptyMapping, pin |-> 0, value |-> 0], pinStatesRef)
    /\ clearedAt' = applied
    /\ UNCHANGED <<applied, started, out, pinStateListeners, cb, pass, nwrites>>
    /\ UNCHANGED <<workerVars, shimVars, injectVars, wireVars>>

\* the RUN_CODE branch schedules __main__() of the next run requested
startRun ==
    /\ started < requested
    /\ started' = started + 1
    /\ UNCHANGED <<applied, requested, clearedAt, out, workerVars, shimVars, storeVars, injectVars, wireVars>>

\* Pin.value(v) in the guest code of run r: PIN_UPDATE is posted
guestWrite(r, p, v) ==
    /\ r <= started
    /\ Len(out) < MaxEmits
    /\ out' = Append(out, PinUpdate(p, v, r))
    /\ UNCHANGED <<applied, requested, started, clearedAt, workerVars, shimVars, storeVars, injectVars, wireVars>>

\* the updater without the spread: ({ [pin]: value })
SetOnly(pin, value) == [kind |-> "replace", m |-> [EmptyMapping EXCEPT ![pin] = value], pin |-> pin, value |-> value]

\* prev => ({ ...prev, [pin]: value })
SpreadAndSet(pin, value) == [kind |-> "function", m |-> EmptyMapping, pin |-> pin, value |-> value]

\* workerRef.current.onmessage for the next message: a PIN_UPDATE is written to the store
onPinUpdate ==
    /\ applied < Len(out)
    /\ applied' = applied + 1
    /\ LET m == out[applied + 1] IN
         pinStatesRef' = IF m.type = "PIN_UPDATE"
                         THEN ApplyUpdater(SpreadAndSet(m.pin, m.value), pinStatesRef)
                         ELSE pinStatesRef
    /\ UNCHANGED <<requested, started, clearedAt, out, pinStateListeners, cb, pass, nwrites>>
    /\ UNCHANGED <<workerVars, shimVars, injectVars, wireVars>>

BridgeNext ==
    \/ requestRun
    \/ startRun
    \/ \E r \in BridgeRuns, p \in MappedPins, v \in Values : guestWrite(r, p, v)
    \/ onPinUpdate

BridgeSpec == Init /\ [][BridgeNext]_vars

\* ---- C27 ----
\* the PIN_UPDATEs for pin p among messages a .. b, and the value of the last of them
UpdatesOf(p, a, b) == {k \in a .. b : out[k].type = "PIN_UPDATE" /\ out[k].pin = p}
LastValue(p, a, b) ==
    IF UpdatesOf(p, a, b) = {} THEN Undefined
    ELSE out[CHOOSE k \in UpdatesOf(p, a, b) : \A j \in UpdatesOf(p, a, b) : j <= k].value

ApplyStep == applied' # applied

\* C27: the application applies the PIN_UPDATEs in the order the shim issued them, each
\* as a read-modify-write that sets the entry of its pin and leaves every other entry
\* as it was; so the store maps every pin to the value of the last PIN_UPDATE applied
\* for it since the store was last cleared, and with no clear in between and all
\* PIN_UPDATEs applied, to the last value the script wrote to it.
C27_PinUpdatesAppliedInOrder ==
    /\ [](\A p \in MappedPins : pinStatesRef[p] = LastValue(p, clearedAt + 1, applied))
    /\ []((clearedAt = 0 /\ applied = Len(out)) =>
            \A p \in MappedPins : UpdatesOf(p, 1, Len(out)) # {} =>
                pinStatesRef[p] = LastValue(p, 1, Len(out)))
    /\ [][ApplyStep =>
            /\ applied' = applied + 1
            /\ pinStatesRef'[out[applied'].pin] = out[applied'].value
            /\ \A q \in MappedPins \ {out[applied'].pin} : pinStatesRef'[q] = pinStatesRef[q]
         ]_vars

\* pin 2 was written 1, pin 4 was written 1, pin 2 was written 0; all three are applied
\* and the store maps 2 to 0 and 4 to 1
C27_Witness ==
    /\ out = <<PinUpdate(2, 1, 1), PinUpdate(4, 1, 1), PinUpdate(2, 0, 1)>>
    /\ applied = 3
    /\ clearedAt = 0
    /\ pinStatesRef[2] = 0
    /\ pinStatesRef[4] = 1

\* ---- C29 ----
\* C29: after a run request (the store replaced by the empty mapping, RUN_CODE sent) the
\* store reflects writes of the new run only: every PIN_UPDATE applied to the store
\* originates from the guest code of the run requested last.
C29_OnlyNewRunApplied ==
    [][ApplyStep => out[applied'].id = requested]_vars

\* ---- the wiring functions of CodingContext ----
\* Each function is one event handler of the application's thread; the state it reads
\* is that of the last render.  A pin the user clicks is an ESP32 pin or a pin of a
\* component on the board.
OnBoard(pinInfo) == pinInfo.type = "esp32" \/ pinInfo.componentId \in placedComponents

WireIds == 1 .. MaxWires
UsedIds == {wires[k].id : k \in 1 .. Len(wires)}
\* uuidv4(): an id no wire has
NewId == CHOOSE i \in WireIds : i \notin UsedIds

\* const newWiring = { ...prev }; delete newWiring[id]
DeleteEntry(map, id) == [map EXCEPT ![id] = Undefined]

startWire(pinInfo) ==
    /\ OnBoard(pinInfo)
    /\ wireInProgress' = [startPin |-> pinInfo]
    /\ wireOp' = "startWire"
    /\ UNCHANGED <<placedComponents, wires, wiring>>
    /\ UNCHANGED <<out, workerVars, shimVars, storeVars, injectVars, bridgeVars>>

\* completeWire: returns at once without a wire in progress; else the wire is added,
\* the wiring entry written when the wire joins an ESP32 pin and a component pin, and
\* the wire in progress cleared
completeWire(pinInfo) ==
    /\ OnBoard(pinInfo)
    /\ Len(wires) < MaxWires
    /\ wireOp' = "completeWire"
    /\ IF wireInProgress = NoWire
       THEN UNCHANGED <<wires, wiring, wireInProgress>>
       ELSE LET start == wireInProgress.startPin IN
            /\ wires' = Append(wires, [id |-> NewId, startPin |-> start, endPin |-> pinInfo])
            /\ wiring' = IF start.type = "esp32" /\ pinInfo.type = "component"
                         THEN [wiring EXCEPT ![pinInfo.componentId] = start.pinNumber]
                         ELSE IF start.type = "component" /\ pinInfo.type = "esp32"
                         THEN [wiring EXCEPT ![start.componentId] = pinInfo.pinNumber]
                         ELSE wiring
            /\ wireInProgress' = NoWire
    /\ UNCHANGED placedComponents
    /\ UNCHANGED <<out, workerVars, shimVars, storeVars, injectVars, bridgeVars>>

cancelWire ==
    /\ wireInProgress' = NoWire
    /\ wireOp' = "cancelWire"
    /\ UNCHANGED <<placedComponents, wires, wiring>>
    /\ UNCHANGED <<out, workerVars, shimVars, storeVars, injectVars, bridgeVars>>

\* removeWireById: the entry of the component the wire starts on, else of the one it
\* ends on, is deleted, and the wire removed; nothing when no wire has the id
removeWireById(wireId) ==
    /\ wireOp' = "removeWireById"
    /\ IF wireId \in UsedIds
       THEN LET wire == wires[CHOOSE k \in 1 .. Len(wires) : wires[k].id = wireId] IN
            /\ wiring' = IF wire.startPin.type = "component"
                         THEN DeleteEntry(wiring, wire.startPin.componentId)
                         ELSE IF wire.endPin.type = "component"
                         THEN DeleteEntry(wiring, wire.endPin.componentId)
                         ELSE wiring
            /\ wires' = SelectSeq(wires, LAMBDA w : w.id # wireId)
       ELSE UNCHANGED <<wires, wiring>>
    /\ UNCHANGED <<placedComponents, wireInProgress>>
    /\ UNCHANGED <<out, workerVars, shimVars, storeVars, injectVars, bridgeVars>>

\* removeComponent: the component, the wires that touch it and its wiring entry go
removeComponent(id) ==
    /\ id \in placedComponents
    /\ wireOp' = "removeComponent"
    /\ placedComponents' = placedComponents \ {id}
    /\ wires' = SelectSeq(wires, LAMBDA w : w.startPin.componentId # id /\ w.endPin.componentId # id)
    /\ wiring' = DeleteEntry(wiring, id)
    /\ UNCHANGED wireInProgress
    /\ UNCHANGED <<out, workerVars, shimVars, storeVars, injectVars, bridgeVars>>

WireNext ==
    \/ \E pinInfo \in PinInfos : startWire(pinInfo)
    \/ \E pinInfo \in PinInfos : completeWire(pinInfo)
    \/ cancelWire
    \/ \E wireId \in WireIds : removeWireById(wireId)
    \/ \E id \in Comps : removeComponent(id)

WireSpec == Init /\ [][WireNext]_vars

\* ---- C30 ----
\* wire w joins a pin of component c and ESP32 pin p
Connects(w, c, p) ==
    \/ w.startPin = EspPin(p) /\ w.endPin.type = "component" /\ w.endPin.componentId = c
    \/ w.endPin = EspPin(p) /\ w.startPin.type = "component" /\ w.startPin.componentId = c

WiringAgrees ==
    \A c \in Comps, p \in EspPins :
        wiring[c] = p <=> \E k \in 1 .. Len(wires) : Connects(wires[k], c, p)

\* C30: after any sequence of startWire, completeWire, cancelWire, removeWireById and
\* removeComponent the wiring map agrees with the wires: it has the entry esp32Pin p for
\* component c exactly when an existing wire joins a pin of c and ESP32 pin p; and no
\* wire is in progress after completeWire or cancelWire.
C30_WiringAgreesWithWires ==
    /\ WiringAgrees
    /\ wireOp \in {"completeWire", "cancelWire"} => wireInProgress = NoWire

\* The part about the wire in progress, and the half of the agreement that holds: an
\* entry of the map is never stale, some existing wire joins its component and its pin.
C30_NoWireInProgressAndNoStaleEntry ==
    /\ wireOp \in {"completeWire", "cancelWire"} => wireInProgress = NoWire
    /\ \A c \in Comps : wiring[c] # Undefined =>
           \E k \in 1 .. Len(wires) : Connects(wires[k], c, wiring[c])
====
